---------------------------- MODULE Spec2Model ----------------------------
(***************************************************************************)
(* Column type inference and schema construction of fastexcel:             *)
(*   src/src/types/dtype.rs  - the semantic layer (DType)                  *)
(*   src/src/utils/arrow.rs  - the physical layer (ArrowDataType), the     *)
(*                             name aliaser and the schema builder         *)
(*                                                                         *)
(* Two specifications share the module:                                    *)
(*   SpecResolve - one call of get_dtype_for_column or                     *)
(*                 get_arrow_column_type on a sheet of one column          *)
(*   Spec        - one call of arrow_schema_from_column_names_and_range,   *)
(*                 one loop iteration per step                             *)
(***************************************************************************)
EXTENDS Naturals, Sequences, FiniteSets, TLC

VARIABLES
    range,            \* the cell source: Range<CalData>
    call,             \* SpecResolve: the resolver call made (or NoCall)
    column_names,     \* Spec: the declared column names
    row_idx,          \* Spec: first row scanned
    row_limit,        \* Spec: row after the last row scanned
    selected_columns, \* Spec: SelectedColumns
    dtypes,           \* Spec: Option<&DTypeMap>
    idx,              \* Spec: position of the for loop over column_names
    fields,           \* Spec: the Vec of fields built so far
    existing_names,   \* Spec: the Vec of names given so far
    trace,            \* Spec: history of the lookups, scans and pushes made
    pc,               \* where the call stands
    result            \* the FastExcelResult returned (or NoResult)

vars == <<range, call, column_names, row_idx, row_limit, selected_columns,
          dtypes, idx, fields, existing_names, trace, pc, result>>

schemaVars == <<column_names, row_idx, row_limit, selected_columns, dtypes,
                idx, fields, existing_names, trace>>

-----------------------------------------------------------------------------
(* Bounds of the model *)

\* rows of the one-column sheet of SpecResolve
MaxRows == 3

\* declared columns of Spec
MaxCols == 3

-----------------------------------------------------------------------------
(* FastExcelResult<T> *)

Ok(v) == [ok |-> TRUE, val |-> v]

Err(e) == [ok |-> FALSE, err |-> e]

CannotRetrieveCellData(row, c) ==
    [kind |-> "CannotRetrieveCellData", row |-> row, col |-> c]

CalamineCellError(code) == [kind |-> "CalamineCellError", code |-> code]

\* The payload is format!("{column_types:?}"): the members of the set, in the
\* HashSet's iteration order; the model keeps the set.
UnsupportedColumnTypeCombination(types) ==
    [kind |-> "UnsupportedColumnTypeCombination", types |-> types]

NoResult == [ok |-> FALSE, err |-> [kind |-> "none"]]

NoCall == [fn |-> "none"]

-----------------------------------------------------------------------------
(* calamine's cells: CalData, one record per variant; v is the payload the  *)
(* classifiers read (the string, the is_datetime flag, the ISO text, the    *)
(* error code)                                                              *)

Cell(tag, v) == [tag |-> tag, v |-> v]

\* ISO texts for which cell.as_datetime() is Some
IsoDateTimeTexts == {"2024-01-02T03:04:05"}

\* ISO texts for which cell.as_datetime() is None
IsoDateTexts == {"2024-01-02"}

CellErrorTypes == {"NA", "Value", "Null", "Div0"}

StringTexts == {"hello", "NULL"}

CellValues ==
    {Cell("Int", ""), Cell("Float", ""), Cell("Bool", ""),
     Cell("DurationIso", ""), Cell("Empty", "")}
    \cup {Cell("String", s) : s \in StringTexts}
    \cup {Cell("DateTime", b) : b \in {"true", "false"}}
    \cup {Cell("DateTimeIso", s) : s \in IsoDateTimeTexts \cup IsoDateTexts}
    \cup {Cell("Error", e) : e \in CellErrorTypes}

\* Range::get((row, col)): None outside the sheet's rectangle
NoCell == Cell("None", "")

Range_get(data, row, c) ==
    IF row < data.height /\ c < data.width
    THEN data.inner[row * data.width + c + 1]
    ELSE NoCell

NULL_STRING_VALUES ==
    {"", "#N/A", "#N/A N/A", "#NA", "-1.#IND", "-1.#QNAN", "-NaN", "-nan",
     "1.#IND", "1.#QNAN", "<NA>", "N/A", "NA", "NULL", "NaN", "None", "n/a",
     "nan", "null"}

as_datetime_is_some(cell) == cell.v \in IsoDateTimeTexts

-----------------------------------------------------------------------------
(* The semantic layer: dtype.rs *)

DTypes == {"Null", "Int", "Float", "String", "Bool", "DateTime", "Date",
           "Duration"}

\* get_cell_dtype with a missing cell read as an empty one
get_cell_dtype_missing_is_null(data, row, c) ==
    LET cell == Range_get(data, row, c) IN
    IF cell = NoCell THEN Ok("Null")
    ELSE CASE cell.tag = "Int" -> Ok("Int")
           [] cell.tag = "Float" -> Ok("Float")
           [] cell.tag = "String" ->
                IF cell.v \in NULL_STRING_VALUES THEN Ok("Null")
                ELSE Ok("String")
           [] cell.tag = "Bool" -> Ok("Bool")
           [] cell.tag = "DateTime" ->
                IF cell.v = "true" THEN Ok("DateTime") ELSE Ok("Duration")
           [] cell.tag = "DateTimeIso" ->
                IF as_datetime_is_some(cell) THEN Ok("DateTime")
                ELSE Ok("Date")
           [] cell.tag = "DurationIso" -> Ok("Duration")
           [] cell.tag = "Error" ->
                IF cell.v \in {"NA", "Value", "Null"} THEN Ok("Null")
                ELSE Err(CalamineCellError(cell.v))
           [] cell.tag = "Empty" -> Ok("Null")

get_cell_dtype(data, row, c) ==
    LET cell == Range_get(data, row, c) IN
    IF cell = NoCell THEN Err(CannotRetrieveCellData(row, c))
    ELSE CASE cell.tag = "Int" -> Ok("Int")
           [] cell.tag = "Float" -> Ok("Float")
           [] cell.tag = "String" ->
                IF cell.v \in NULL_STRING_VALUES THEN Ok("Null")
                ELSE Ok("String")
           [] cell.tag = "Bool" -> Ok("Bool")
           [] cell.tag = "DateTime" ->
                IF cell.v = "true" THEN Ok("DateTime") ELSE Ok("Duration")
           [] cell.tag = "DateTimeIso" ->
                IF as_datetime_is_some(cell) THEN Ok("DateTime")
                ELSE Ok("Date")
           [] cell.tag = "DurationIso" -> Ok("Duration")
           [] cell.tag = "Error" ->
                IF cell.v \in {"NA", "Value", "Null"} THEN Ok("Null")
                ELSE Err(CalamineCellError(cell.v))
           [] cell.tag = "Empty" -> Ok("Null")

float_types == {"Int", "Float", "Bool"}

int_types == {"Int", "Bool"}

\* string_types with Bool let in
string_types_with_bool == {"Int", "Float", "String", "Bool"}

\* string_types with Float left out
string_types_no_float == {"Int", "String"}

string_types == {"Int", "Float", "String"}

\* collect_dtypes keeping the last type seen instead of the set of them
RECURSIVE collect_dtypes_last_wins(_, _, _, _, _)
collect_dtypes_last_wins(data, row, end_row, c, acc) ==
    IF row >= end_row THEN Ok(acc)
    ELSE LET r == get_cell_dtype(data, row, c) IN
         IF ~r.ok THEN r
         ELSE collect_dtypes_last_wins(data, row + 1, end_row, c,
                                       IF r.val = "Null" THEN acc
                                       ELSE {r.val})

\* (start_row..end_row).map(get_cell_dtype).collect::<FastExcelResult<HashSet>>():
\* rows in increasing order, the first Err ends the iteration and is the result
RECURSIVE collect_dtypes(_, _, _, _, _)
collect_dtypes(data, row, end_row, c, acc) ==
    IF row >= end_row THEN Ok(acc)
    ELSE LET r == get_cell_dtype(data, row, c) IN
         IF ~r.ok THEN r
         ELSE collect_dtypes(data, row + 1, end_row, c, acc \cup {r.val})

get_dtype_for_column(data, start_row, end_row, c) ==
    LET collected == collect_dtypes(data, start_row, end_row, c, {}) IN
    IF ~collected.ok THEN collected
    ELSE LET column_types == collected.val \ {"Null"} IN
         IF column_types = {} THEN Ok("Null")
         ELSE IF Cardinality(column_types) = 1
              THEN Ok(CHOOSE t \in column_types : TRUE)
         ELSE IF column_types \subseteq int_types THEN Ok("Int")
         ELSE IF column_types \subseteq float_types THEN Ok("Float")
         ELSE IF column_types \subseteq string_types THEN Ok("String")
         ELSE Err(UnsupportedColumnTypeCombination(column_types))

-----------------------------------------------------------------------------
(* The physical layer: arrow.rs *)

ArrowDataTypes == {"Null", "Int64", "Float64", "Utf8", "Boolean",
                   "Timestamp(ms)", "Date32", "Duration(ms)"}

get_cell_type(data, row, c) ==
    LET cell == Range_get(data, row, c) IN
    IF cell = NoCell THEN Err(CannotRetrieveCellData(row, c))
    ELSE CASE cell.tag = "Int" -> Ok("Int64")
           [] cell.tag = "Float" -> Ok("Float64")
           [] cell.tag = "String" ->
                IF cell.v \in NULL_STRING_VALUES THEN Ok("Null")
                ELSE Ok("Utf8")
           [] cell.tag = "Bool" -> Ok("Boolean")
           [] cell.tag = "DateTime" ->
                IF cell.v = "true" THEN Ok("Timestamp(ms)")
                ELSE Ok("Duration(ms)")
           [] cell.tag = "DateTimeIso" ->
                IF as_datetime_is_some(cell) THEN Ok("Timestamp(ms)")
                ELSE Ok("Date32")
           [] cell.tag = "DurationIso" -> Ok("Duration(ms)")
           [] cell.tag = "Error" ->
                IF cell.v = "NA" THEN Ok("Null")
                ELSE Err(CalamineCellError(cell.v))
           [] cell.tag = "Empty" -> Ok("Null")

\* float_types of the physical layer with Boolean left out
arrow_float_types_no_bool == {"Int64", "Float64"}

arrow_float_types == {"Int64", "Float64", "Boolean"}

arrow_int_types == {"Int64", "Boolean"}

arrow_string_types == {"Int64", "Float64", "Utf8"}

RECURSIVE collect_types(_, _, _, _, _)
collect_types(data, row, end_row, c, acc) ==
    IF row >= end_row THEN Ok(acc)
    ELSE LET r == get_cell_type(data, row, c) IN
         IF ~r.ok THEN r
         ELSE collect_types(data, row + 1, end_row, c, acc \cup {r.val})

get_arrow_column_type(data, start_row, end_row, c) ==
    LET collected == collect_types(data, start_row, end_row, c, {}) IN
    IF ~collected.ok THEN collected
    ELSE LET column_types == collected.val \ {"Null"} IN
         IF column_types = {} THEN Ok("Null")
         ELSE IF Cardinality(column_types) = 1
              THEN Ok(CHOOSE t \in column_types : TRUE)
         ELSE IF column_types \subseteq arrow_int_types THEN Ok("Int64")
         ELSE IF column_types \subseteq arrow_float_types THEN Ok("Float64")
         ELSE IF column_types \subseteq arrow_string_types THEN Ok("Utf8")
         ELSE Err(UnsupportedColumnTypeCombination(column_types))

\* impl From<&DType> for ArrowDataType
ArrowFromDType(dtype) ==
    CASE dtype = "Null" -> "Null"
      [] dtype = "Int" -> "Int64"
      [] dtype = "Float" -> "Float64"
      [] dtype = "String" -> "Utf8"
      [] dtype = "Bool" -> "Boolean"
      [] dtype = "DateTime" -> "Timestamp(ms)"
      [] dtype = "Date" -> "Date32"
      [] dtype = "Duration" -> "Duration(ms)"

-----------------------------------------------------------------------------
(* Option<T> *)

None == [some |-> FALSE]

Some(v) == [some |-> TRUE, val |-> v]

-----------------------------------------------------------------------------
(* The type override map and the column selection (their code is outside   *)
(* the two source files: modelled from the specification, 4.3 and 4.4)     *)

\* IdxOrName, the keys of a DTypeMap
NameKey(name) == [kind |-> "Name", name |-> name, idx |-> 0]

IdxKey(i) == [kind |-> "Idx", name |-> "", idx |-> i]

\* typeForName: a plain key lookup
dtype_for_col_name(dts, col_name) ==
    IF NameKey(col_name) \in DOMAIN dts THEN Some(dts[NameKey(col_name)])
    ELSE None

\* typeForIndex: a plain key lookup
dtype_for_col_idx(dts, col_idx) ==
    IF IdxKey(col_idx) \in DOMAIN dts THEN Some(dts[IdxKey(col_idx)])
    ELSE None

\* the first position of col_name among col_names, zero-based
RECURSIVE position(_, _, _)
position(col_names, col_name, from) ==
    IF from >= Len(col_names) THEN None
    ELSE IF col_names[from + 1] = col_name THEN Some(from)
    ELSE position(col_names, col_name, from + 1)

\* sourceIndexFor: All takes part with the declared index, ByName iff the
\* name is selected, with the declared index of that name, ByIndex iff the
\* declared index is selected
idx_for_column(selection, col_names, col_name, col_idx) ==
    CASE selection.kind = "All" -> Some(col_idx)
      [] selection.kind = "ByName" ->
            IF col_name \in selection.names
            THEN position(col_names, col_name, 0)
            ELSE None
      [] selection.kind = "ByIndex" ->
            IF col_idx \in selection.idxs THEN Some(col_idx) ELSE None

-----------------------------------------------------------------------------
(* The name aliaser: arrow.rs *)

\* format!("{name}_{depth}")
format_alias(name, depth) == name \o "_" \o ToString(depth)

\* existing_names.iter().any(|existing_name| existing_name == &alias)
any_equal(names, alias) == \E i \in 1..Len(names) : names[i] = alias

\* rec probing from depth 1 on
RECURSIVE rec_from_one(_, _, _)
rec_from_one(name, names, depth) ==
    LET alias == format_alias(name, depth) IN
    IF any_equal(names, alias) THEN rec_from_one(name, names, depth + 1)
    ELSE alias

\* alias_for_name with the bare name never probed
alias_for_name_from_one(name, names) == rec_from_one(name, names, 1)

\* alias_for_name giving name_1 to any taken name, without probing further
alias_for_name_once(name, names) ==
    IF any_equal(names, name) THEN format_alias(name, 1) ELSE name

RECURSIVE rec(_, _, _)
rec(name, names, depth) ==
    LET alias == IF depth = 0 THEN name ELSE format_alias(name, depth) IN
    IF any_equal(names, alias) THEN rec(name, names, depth + 1)
    ELSE alias

alias_for_name(name, names) == rec(name, names, 0)

-----------------------------------------------------------------------------
(* The schema builder: arrow.rs *)

Field(name, data_type) ==
    [name |-> name, data_type |-> data_type, nullable |-> TRUE]

\* the events of trace: an override lookup by name or by index, a scan of
\* the cells, a field pushed; i is the declared index of the column the loop
\* is at, c its source index
Event(ev, i, c) == [ev |-> ev, idx |-> i, col_idx |-> c]

\* a column's type, with the lookups and the scan made to find it
Looked(res, events) == [res |-> res, events |-> events]

scan_column(i, col_idx) ==
    Looked(get_arrow_column_type(range, row_idx, row_limit, col_idx),
           <<Event("scan", i, col_idx)>>)

\* the All chain with the lookup by index made before the lookup by name
arrow_type_for_column_idx_first(i, col_idx, col_name) ==
    LET by_name == IF dtypes.some THEN dtype_for_col_name(dtypes.val, col_name)
                   ELSE None
        by_idx == IF dtypes.some THEN dtype_for_col_idx(dtypes.val, col_idx)
                  ELSE None
        scanned == scan_column(i, col_idx)
    IN CASE selected_columns.kind = "All" ->
              IF ~dtypes.some THEN scanned
              ELSE IF by_idx.some
                   THEN Looked(Ok(ArrowFromDType(by_idx.val)),
                               <<Event("by_idx", i, col_idx)>>)
              ELSE IF by_name.some
                   THEN Looked(Ok(ArrowFromDType(by_name.val)),
                               <<Event("by_idx", i, col_idx),
                                 Event("by_name", i, col_idx)>>)
              ELSE Looked(scanned.res,
                          <<Event("by_idx", i, col_idx),
                            Event("by_name", i, col_idx)>> \o scanned.events)
         [] selected_columns.kind = "ByName" ->
              IF ~dtypes.some THEN scanned
              ELSE IF by_name.some
                   THEN Looked(Ok(ArrowFromDType(by_name.val)),
                               <<Event("by_name", i, col_idx)>>)
              ELSE Looked(scanned.res,
                          <<Event("by_name", i, col_idx)>> \o scanned.events)
         [] selected_columns.kind = "ByIndex" ->
              IF ~dtypes.some THEN scanned
              ELSE IF by_idx.some
                   THEN Looked(Ok(ArrowFromDType(by_idx.val)),
                               <<Event("by_idx", i, col_idx)>>)
              ELSE Looked(scanned.res,
                          <<Event("by_idx", i, col_idx)>> \o scanned.events)

\* the closure arrow_type_for_column, called for the column at declared index i
arrow_type_for_column(i, col_idx, col_name) ==
    LET by_name == IF dtypes.some THEN dtype_for_col_name(dtypes.val, col_name)
                   ELSE None
        by_idx == IF dtypes.some THEN dtype_for_col_idx(dtypes.val, col_idx)
                  ELSE None
        scanned == scan_column(i, col_idx)
    IN CASE selected_columns.kind = "All" ->
              IF ~dtypes.some THEN scanned
              ELSE IF by_name.some
                   THEN Looked(Ok(ArrowFromDType(by_name.val)),
                               <<Event("by_name", i, col_idx)>>)
              ELSE IF by_idx.some
                   THEN Looked(Ok(ArrowFromDType(by_idx.val)),
                               <<Event("by_name", i, col_idx),
                                 Event("by_idx", i, col_idx)>>)
              ELSE Looked(scanned.res,
                          <<Event("by_name", i, col_idx),
                            Event("by_idx", i, col_idx)>> \o scanned.events)
         [] selected_columns.kind = "ByName" ->
              IF ~dtypes.some THEN scanned
              ELSE IF by_name.some
                   THEN Looked(Ok(ArrowFromDType(by_name.val)),
                               <<Event("by_name", i, col_idx)>>)
              ELSE Looked(scanned.res,
                          <<Event("by_name", i, col_idx)>> \o scanned.events)
         [] selected_columns.kind = "ByIndex" ->
              IF ~dtypes.some THEN scanned
              ELSE IF by_idx.some
                   THEN Looked(Ok(ArrowFromDType(by_idx.val)),
                               <<Event("by_idx", i, col_idx)>>)
              ELSE Looked(scanned.res,
                          <<Event("by_idx", i, col_idx)>> \o scanned.events)

\* the source index with the selection left out: every column takes part
selected_col_idx_all(i, name) == Some(i)

\* the source index of the column the loop is at, if it takes part
selected_col_idx(i, name) ==
    IF selected_columns.kind = "All" THEN Some(i)
    ELSE idx_for_column(selected_columns, column_names, name, i)

\* the column the loop is at
InLoop == pc = "loop" /\ idx < Len(column_names)

\* a loop iteration for a column that does not take part
LoopSkip ==
    /\ InLoop
    /\ ~selected_col_idx(idx, column_names[idx + 1]).some
    /\ idx' = idx + 1
    /\ UNCHANGED <<range, call, column_names, row_idx, row_limit,
                   selected_columns, dtypes, fields, existing_names, trace,
                   pc, result>>

\* a failed column given the Null type and the loop going on
LoopError_default ==
    /\ InLoop
    /\ LET name == column_names[idx + 1]
           col_idx == selected_col_idx(idx, name)
       IN /\ col_idx.some
          /\ LET col_type == arrow_type_for_column(idx, col_idx.val, name)
                 aliased_name == alias_for_name(name, existing_names)
             IN /\ ~col_type.res.ok
                /\ fields' = Append(fields, Field(aliased_name, "Null"))
                /\ existing_names' = Append(existing_names, aliased_name)
                /\ trace' = trace \o col_type.events
                               \o <<Event("push", idx, col_idx.val)>>
    /\ idx' = idx + 1
    /\ UNCHANGED <<range, call, column_names, row_idx, row_limit,
                   selected_columns, dtypes, pc, result>>

\* a loop iteration whose column's type is an Err: the ? returns it
LoopError ==
    /\ InLoop
    /\ LET name == column_names[idx + 1]
           col_idx == selected_col_idx(idx, name)
       IN /\ col_idx.some
          /\ LET col_type == arrow_type_for_column(idx, col_idx.val, name)
             IN /\ ~col_type.res.ok
                /\ trace' = trace \o col_type.events
                /\ result' = col_type.res
    /\ pc' = "returned"
    /\ UNCHANGED <<range, call, column_names, row_idx, row_limit,
                   selected_columns, dtypes, idx, fields, existing_names>>

\* a loop iteration that pushes the column's field
LoopPush ==
    /\ InLoop
    /\ LET name == column_names[idx + 1]
           col_idx == selected_col_idx(idx, name)
       IN /\ col_idx.some
          /\ LET col_type == arrow_type_for_column(idx, col_idx.val, name)
                 aliased_name == alias_for_name(name, existing_names)
             IN /\ col_type.res.ok
                /\ fields' = Append(fields,
                                    Field(aliased_name, col_type.res.val))
                /\ existing_names' = Append(existing_names, aliased_name)
                /\ trace' = trace \o col_type.events
                               \o <<Event("push", idx, col_idx.val)>>
    /\ idx' = idx + 1
    /\ UNCHANGED <<range, call, column_names, row_idx, row_limit,
                   selected_columns, dtypes, pc, result>>

\* Ok(Schema::new(fields)) after the last column
Return ==
    /\ pc = "loop"
    /\ idx >= Len(column_names)
    /\ result' = Ok(fields)
    /\ pc' = "returned"
    /\ UNCHANGED <<range, call, column_names, row_idx, row_limit,
                   selected_columns, dtypes, idx, fields, existing_names,
                   trace>>

\* the declared names: one that repeats, one of the form of its alias, another
Names == {"id", "id_1", "val"}

\* the columns of the sheets: one that resolves (Int and Float cells), one
\* that holds a Value error marker, one whose types do not combine
SampleColumns ==
    {<<Cell("Int", ""), Cell("Float", "")>>,
     <<Cell("Int", ""), Cell("Error", "Value")>>,
     <<Cell("Bool", ""), Cell("String", "hello")>>}

\* the sheet made of the given columns, all of the given height
SheetOfColumns(columns, height) ==
    [height |-> height,
     width |-> Len(columns),
     inner |-> [i \in 1..(height * Len(columns)) |->
                  columns[((i - 1) % Len(columns)) + 1]
                         [((i - 1) \div Len(columns)) + 1]]]

SelectableNames == {"id", "val"}

SelectableIdxs == {0, 2}

Selections ==
    {[kind |-> "All"]}
    \cup {[kind |-> "ByName", names |-> S] : S \in SUBSET SelectableNames}
    \cup {[kind |-> "ByIndex", idxs |-> S] : S \in SUBSET SelectableIdxs}

\* the override maps: any part of an entry by name and an entry by index
OverrideEntries == (NameKey("id") :> "Date") @@ (IdxKey(0) :> "String")

DTypeMaps ==
    {[k \in K |-> OverrideEntries[k]] : K \in SUBSET DOMAIN OverrideEntries}

\* The call's arguments: up to MaxCols declared names, a sheet of one sample
\* column of two rows per declared name, scanned whole, a selection and an
\* optional override map
Init ==
    /\ column_names \in UNION {[1..n -> Names] : n \in 0..MaxCols}
    /\ \E columns \in [1..Len(column_names) -> SampleColumns] :
          range = SheetOfColumns(columns, 2)
    /\ row_idx = 0
    /\ row_limit = range.height
    /\ selected_columns \in Selections
    /\ dtypes \in {None} \cup {Some(dts) : dts \in DTypeMaps}
    /\ idx = 0
    /\ fields = <<>>
    /\ existing_names = <<>>
    /\ trace = <<>>
    /\ call = NoCall
    /\ pc = "loop"
    /\ result = NoResult

Next == LoopSkip \/ LoopError \/ LoopPush \/ Return

Spec == Init /\ [][Next]_vars

-----------------------------------------------------------------------------
(* SpecResolve: a sheet of one column, one resolver call *)

\* a sheet of the given width whose cells are drawn from cells
Sheets(heights, width, cells) ==
    UNION {[height : {h}, width : {width}, inner : [1..(h * width) -> cells]]
           : h \in heights}

SchemaIdle ==
    /\ column_names = <<>>
    /\ row_idx = 0
    /\ row_limit = 0
    /\ selected_columns = [kind |-> "All"]
    /\ dtypes = None
    /\ idx = 0
    /\ fields = <<>>
    /\ existing_names = <<>>
    /\ trace = <<>>

\* a sheet of one column of up to MaxRows cells of any variant, no call made
InitResolve ==
    /\ range \in Sheets(0..MaxRows, 1, CellValues)
    /\ call = NoCall
    /\ pc = "idle"
    /\ result = NoResult
    /\ SchemaIdle

\* the calls made: the row range may start after row 0, end before it starts
\* and reach past the last row; the column may be outside the sheet (then
\* from row 0 only)
StartRows == {0, 1}

EndRows == 0..(MaxRows + 1)

Cols == {0, 1}

CallArgs ==
    {a \in [start_row : StartRows, end_row : EndRows, col : Cols] :
        a.col = 0 \/ a.start_row = 0}

Call_get_dtype_for_column ==
    /\ pc = "idle"
    /\ \E a \in CallArgs :
          /\ call' = [fn |-> "get_dtype_for_column", start_row |-> a.start_row,
                      end_row |-> a.end_row, col |-> a.col]
          /\ result' = get_dtype_for_column(range, a.start_row, a.end_row,
                                            a.col)
    /\ pc' = "returned"
    /\ UNCHANGED <<range, schemaVars>>

Call_get_arrow_column_type ==
    /\ pc = "idle"
    /\ \E a \in CallArgs :
          /\ call' = [fn |-> "get_arrow_column_type", start_row |-> a.start_row,
                      end_row |-> a.end_row, col |-> a.col]
          /\ result' = get_arrow_column_type(range, a.start_row, a.end_row,
                                             a.col)
    /\ pc' = "returned"
    /\ UNCHANGED <<range, schemaVars>>

NextResolve == Call_get_dtype_for_column \/ Call_get_arrow_column_type

SpecResolve == InitResolve /\ [][NextResolve]_vars

-----------------------------------------------------------------------------
(* Properties of the resolvers, checked under SpecResolve *)

Returned(fn) == pc = "returned" /\ call.fn = fn

\* the rows of the half-open range [start_row, end_row)
RowsOf(start_row, end_row) ==
    {row \in 0..end_row : row >= start_row /\ row < end_row}

CallRows == RowsOf(call.start_row, call.end_row)

\* the classification of one cell of the call's column, by the call's layer
Classify(data, row) ==
    IF call.fn = "get_dtype_for_column" THEN get_cell_dtype(data, row, call.col)
    ELSE get_cell_type(data, row, call.col)

\* the call made, on another sheet or row range
Resolve(data, start_row, end_row) ==
    IF call.fn = "get_dtype_for_column"
    THEN get_dtype_for_column(data, start_row, end_row, call.col)
    ELSE get_arrow_column_type(data, start_row, end_row, call.col)

AllClassify == \A row \in CallRows : Classify(range, row).ok

\* S: the distinct types of the cells of the range, Null removed
ObservedTypes == {Classify(range, row).val : row \in CallRows} \ {"Null"}

TemporalTypes == {"DateTime", "Date", "Duration"}

\* the reference function of C1, as a table over S
ReferenceResolve(S) ==
    IF S = {} THEN Ok("Null")
    ELSE IF \E t \in DTypes : S = {t} THEN Ok(CHOOSE t \in DTypes : S = {t})
    ELSE IF S = {"Int", "Bool"} THEN Ok("Int")
    ELSE IF S \in {{"Int", "Float"}, {"Float", "Bool"}, {"Int", "Float", "Bool"}}
         THEN Ok("Float")
    ELSE IF S \in {{"Int", "String"}, {"Float", "String"},
                   {"Int", "Float", "String"}}
         THEN Ok("String")
    ELSE Err(UnsupportedColumnTypeCombination(S))

\* C1: whenever every cell of [start_row, end_row) classifies,
\* get_dtype_for_column returns the reference function's value of S (Null for
\* an empty S, the member of a singleton, Int, Float or String by the lattice,
\* else UnsupportedColumnTypeCombination(S)); a set of two or more types that
\* holds a temporal type fails
C1_ResolveIsReference ==
    (Returned("get_dtype_for_column") /\ AllClassify) =>
        /\ result = ReferenceResolve(ObservedTypes)
        /\ (Cardinality(ObservedTypes) >= 2
            /\ ObservedTypes \cap TemporalTypes # {}) => ~result.ok
        /\ (call.start_row >= call.end_row) => result = Ok("Null")

C1_Witness ==
    /\ Returned("get_dtype_for_column")
    /\ AllClassify
    /\ ObservedTypes = {"Int", "Float", "Bool"}
    /\ result = Ok("Float")

SameOutcome(r1, r2) ==
    \/ r1.ok /\ r2.ok /\ r1.val = r2.val
    \/ ~r1.ok /\ ~r2.ok

\* the rows of the call's range that the sheet holds
SheetRows == {row \in CallRows : row < range.height}

\* the permutations of the rows of the range that the sheet holds
RangePermutations == Permutations(SheetRows)

\* the sheet with each row r of the permuted rows holding what row p[r] held
PermuteRows(data, p) ==
    [data EXCEPT !.inner =
        [i \in 1..(data.height * data.width) |->
            LET row == (i - 1) \div data.width
                from == IF row \in DOMAIN p THEN p[row] ELSE row
            IN data.inner[from * data.width + ((i - 1) % data.width) + 1]]]

\* the sheet with a copy of row r inserted as row at
InsertRow(data, at, r) ==
    [height |-> data.height + 1,
     width |-> data.width,
     inner |-> [i \in 1..((data.height + 1) * data.width) |->
                  LET row == (i - 1) \div data.width
                      c == (i - 1) % data.width
                      from == IF row < at THEN row
                              ELSE IF row = at THEN r ELSE row - 1
                  IN data.inner[from * data.width + c + 1]]]

\* C2: the outcome of a resolver call (the type, or that it fails) is the same
\* after any permutation of the rows of the scanned range, and after a cell
\* of the range is repeated on one more row of the range
C2_OrderIndependent ==
    pc = "returned" =>
        /\ \A p \in RangePermutations :
              SameOutcome(result,
                          Resolve(PermuteRows(range, p), call.start_row,
                                  call.end_row))
        /\ call.end_row <= range.height =>
              \A r \in SheetRows :
                  SameOutcome(result,
                              Resolve(InsertRow(range, call.end_row, r),
                                      call.start_row, call.end_row + 1))

C2_Witness ==
    /\ Returned("get_dtype_for_column")
    /\ call.col = 0 /\ call.start_row = 0 /\ call.end_row = 3
    /\ range.height = 3
    /\ range.inner = <<Cell("String", "hello"), Cell("Int", ""),
                       Cell("Float", "")>>
    /\ result = Ok("String")
    /\ \E p \in RangePermutations : PermuteRows(range, p) # range

RecoverableErrors == {"NA", "Value", "Null"}

\* C3: in both classifiers an error marker NA, Value or Null classifies as
\* Null and any other marker fails with CalamineCellError(code); a scanned
\* column holding only such recoverable markers next to cells of one type T
\* resolves to T
C3_RecoverableMarkers ==
    (pc = "returned" /\ call.col = 0) =>
        /\ \A row \in SheetRows :
              LET cell == Range_get(range, row, call.col) IN
              cell.tag = "Error" =>
                  Classify(range, row) =
                      IF cell.v \in RecoverableErrors THEN Ok("Null")
                      ELSE Err(CalamineCellError(cell.v))
        /\ \A cell \in CellValues :
              (/\ cell.tag \notin {"Error", "Empty"}
               /\ SheetRows = CallRows
               /\ \E row \in CallRows : Range_get(range, row, 0) = cell
               /\ \A row \in CallRows :
                     LET x == Range_get(range, row, 0) IN
                     x = cell \/ (x.tag = "Error" /\ x.v \in RecoverableErrors))
              => result = Resolve([height |-> 1, width |-> 1,
                                   inner |-> <<cell>>], 0, 1)

\* C8: a cell the sheet does not hold classifies as
\* Err(CannotRetrieveCellData(row, col)), never as a type; a call over a
\* non-empty range that holds such a row returns an error
C8_OutOfRangeFails ==
    pc = "returned" =>
        /\ \A row \in 0..(MaxRows + 1) :
              Range_get(range, row, call.col) = NoCell =>
                  Classify(range, row)
                      = Err(CannotRetrieveCellData(row, call.col))
        /\ (\E row \in CallRows : Range_get(range, row, call.col) = NoCell)
              => ~result.ok

C8_Witness ==
    /\ Returned("get_dtype_for_column")
    /\ range.height = 2
    /\ call.col = 0 /\ call.start_row = 1 /\ call.end_row = 3
    /\ Range_get(range, 1, 0) = Cell("Int", "")
    /\ result = Err(CannotRetrieveCellData(2, 0))

StringOf(fn) == IF fn = "get_dtype_for_column" THEN "String" ELSE "Utf8"

BoolOf(fn) == IF fn = "get_dtype_for_column" THEN "Bool" ELSE "Boolean"

TemporalOf(fn) ==
    IF fn = "get_dtype_for_column" THEN TemporalTypes
    ELSE {"Timestamp(ms)", "Date32", "Duration(ms)"}

StringCompatibleOf(fn) ==
    IF fn = "get_dtype_for_column" THEN {"Int", "Float", "String"}
    ELSE {"Int64", "Float64", "Utf8"}

\* C10 as stated: a column whose observed non-null types hold String and no
\* temporal type resolves to String
C10_AnyStringForcesString ==
    (/\ pc = "returned"
     /\ AllClassify
     /\ StringOf(call.fn) \in ObservedTypes
     /\ ObservedTypes \cap TemporalOf(call.fn) = {})
    => result = Ok(StringOf(call.fn))

\* C10, amended: a column whose observed non-null types hold String and are
\* all among Int, Float and String resolves to String; one that holds String
\* and Bool fails with UnsupportedColumnTypeCombination(S)
C10_StringAmongIntFloatString ==
    (pc = "returned" /\ AllClassify /\ StringOf(call.fn) \in ObservedTypes) =>
        /\ ObservedTypes \subseteq StringCompatibleOf(call.fn)
              => result = Ok(StringOf(call.fn))
        /\ BoolOf(call.fn) \in ObservedTypes
              => result = Err(UnsupportedColumnTypeCombination(ObservedTypes))

C10_Witness ==
    /\ Returned("get_dtype_for_column")
    /\ AllClassify
    /\ ObservedTypes = {"Float", "String"}
    /\ result = Ok("String")

\* the projection of the semantic types onto the physical ones
Projection(t) ==
    CASE t = "Null" -> "Null"
      [] t = "Int" -> "Int64"
      [] t = "Float" -> "Float64"
      [] t = "String" -> "Utf8"
      [] t = "Bool" -> "Boolean"
      [] t = "DateTime" -> "Timestamp(ms)"
      [] t = "Date" -> "Date32"
      [] t = "Duration" -> "Duration(ms)"

\* the rows of the call's range whose cell is a Value or Null error marker
MarkerRows ==
    {row \in CallRows :
        LET cell == Range_get(range, row, call.col) IN
        cell.tag = "Error" /\ cell.v \in {"Value", "Null"}}

\* what each layer returns for the call made: the call's own layer returned
\* result, the other layer is called with the same arguments
SemanticResult ==
    IF call.fn = "get_dtype_for_column" THEN result
    ELSE get_dtype_for_column(range, call.start_row, call.end_row, call.col)

PhysicalResult ==
    IF call.fn = "get_arrow_column_type" THEN result
    ELSE get_arrow_column_type(range, call.start_row, call.end_row, call.col)

LayersAgree ==
    /\ PhysicalResult.ok <=> SemanticResult.ok
    /\ SemanticResult.ok => PhysicalResult.val = Projection(SemanticResult.val)

\* C11: on a column and row range that hold no Value or Null error marker,
\* get_arrow_column_type succeeds iff get_dtype_for_column does, and returns
\* the projection of its type (the projection being the From<&DType> of the
\* code); the layers differ only on a range that holds such a marker, where
\* the semantic classifier reads the marker as Null and the physical layer
\* fails
C11_LayersEquivalent ==
    pc = "returned" =>
        /\ \A t \in DTypes : ArrowFromDType(t) = Projection(t)
        /\ MarkerRows = {} => LayersAgree
        /\ ~LayersAgree => MarkerRows # {}
        /\ MarkerRows # {} =>
              /\ ~PhysicalResult.ok
              /\ \A row \in MarkerRows :
                    /\ get_cell_dtype(range, row, call.col) = Ok("Null")
                    /\ get_cell_type(range, row, call.col)
                          = Err(CalamineCellError(
                                   Range_get(range, row, call.col).v))

\* the physical layer promotes Int, Bool and Float cells next to an NA marker
\* to Float64, as the semantic layer promotes them to Float
C11_Witness ==
    /\ Returned("get_arrow_column_type")
    /\ call.col = 0 /\ call.start_row = 0 /\ call.end_row = 3
    /\ range.height = 3
    /\ MarkerRows = {}
    /\ AllClassify
    /\ ObservedTypes = {"Int64", "Boolean", "Float64"}
    /\ result = Ok("Float64")
    /\ SemanticResult = Ok("Float")

\* the layers part on a Value marker: the semantic layer resolves the column,
\* the physical layer fails on the marker
C11_WitnessMarker ==
    /\ Returned("get_dtype_for_column")
    /\ call.col = 0 /\ call.start_row = 0 /\ call.end_row = 2
    /\ range.height = 2
    /\ range.inner = <<Cell("Int", ""), Cell("Error", "Value")>>
    /\ result = Ok("Int")
    /\ PhysicalResult = Err(CalamineCellError("Value"))

-----------------------------------------------------------------------------
(* Properties of the schema builder, checked under Spec *)

IsPush(e) == e.ev = "push"

\* the push events: the k-th is the push of the k-th field
PushEvents == SelectSeq(trace, IsPush)

DeclaredIdxs == 0..(Len(column_names) - 1)

NameAt(i) == column_names[i + 1]

\* whether the declared column i takes part, by the selection
Participates(i) ==
    CASE selected_columns.kind = "All" -> TRUE
      [] selected_columns.kind = "ByName" ->
            NameAt(i) \in selected_columns.names
      [] selected_columns.kind = "ByIndex" -> i \in selected_columns.idxs

\* the source index of the declared column i
SourceIndex(i) ==
    IF selected_columns.kind = "ByName"
    THEN CHOOSE j \in DeclaredIdxs :
            /\ NameAt(j) = NameAt(i)
            /\ \A j2 \in DeclaredIdxs : NameAt(j2) = NameAt(i) => j <= j2
    ELSE i

HasOverride(key) == dtypes.some /\ key \in DOMAIN dtypes.val

\* the override keys the selection's chain consults for column i, in order
ChainKeys(i) ==
    CASE selected_columns.kind = "All" ->
            <<NameKey(NameAt(i)), IdxKey(SourceIndex(i))>>
      [] selected_columns.kind = "ByName" -> <<NameKey(NameAt(i))>>
      [] selected_columns.kind = "ByIndex" -> <<IdxKey(SourceIndex(i))>>

OverrideHit(i) ==
    \E n \in 1..Len(ChainKeys(i)) : HasOverride(ChainKeys(i)[n])

\* the first hit of the chain of column i: the first override of the chain
\* that is set, else the scan of the column's cells
FirstHit(i) ==
    IF OverrideHit(i)
    THEN LET n == CHOOSE n \in 1..Len(ChainKeys(i)) :
                     /\ HasOverride(ChainKeys(i)[n])
                     /\ \A m \in 1..Len(ChainKeys(i)) :
                           HasOverride(ChainKeys(i)[m]) => n <= m
         IN Ok(ArrowFromDType(dtypes.val[ChainKeys(i)[n]]))
    ELSE get_arrow_column_type(range, row_idx, row_limit, SourceIndex(i))

TraceEvents == {trace[n] : n \in 1..Len(trace)}

NoTwoShareName(fs) ==
    \A k1, k2 \in 1..Len(fs) : fs[k1].name = fs[k2].name => k1 = k2

\* C5: no two fields share a display name, in the field list at every step
\* and in the schema returned, whatever the declared names
C5_DisplayNamesUnique ==
    /\ NoTwoShareName(fields)
    /\ (pc = "returned" /\ result.ok) => NoTwoShareName(result.val)

C5_Witness ==
    /\ pc = "returned" /\ result.ok
    /\ column_names = <<"id", "id", "id_1">>
    /\ Len(result.val) = 3
    /\ result.val[1].name = "id"
    /\ result.val[2].name = "id_1"
    /\ result.val[3].name = "id_1_1"

\* the declared indexes below n that take part, in declared order
RECURSIVE ParticipatingBelow(_)
ParticipatingBelow(n) ==
    IF n = 0 THEN <<>>
    ELSE IF Participates(n - 1)
         THEN Append(ParticipatingBelow(n - 1), n - 1)
    ELSE ParticipatingBelow(n - 1)

\* C6: a schema returned holds one field per column that takes part, in
\* declared order (All: every column, with its declared index as source;
\* ByName: the columns whose name is selected; ByIndex: those whose declared
\* index is selected); a column that takes no part has no lookup, no scan, no
\* field and no error
C6_OneFieldPerParticipant ==
    /\ \A e \in TraceEvents : Participates(e.idx)
    /\ (pc = "returned" /\ result.ok) =>
          /\ Len(result.val) = Len(ParticipatingBelow(Len(column_names)))
          /\ [k \in 1..Len(PushEvents) |-> PushEvents[k].idx]
                = ParticipatingBelow(Len(column_names))
          /\ selected_columns.kind = "All" =>
                \A e \in TraceEvents : e.col_idx = e.idx
    /\ (pc = "returned" /\ ~result.ok) =>
          /\ trace # <<>>
          /\ trace[Len(trace)].ev = "scan"
          /\ Participates(trace[Len(trace)].idx)

C6_Witness ==
    /\ pc = "returned" /\ result.ok
    /\ selected_columns.kind = "ByName"
    /\ column_names = <<"id", "id_1", "val">>
    /\ selected_columns.names = {"val"}
    /\ Len(result.val) = 1
    /\ result.val[1].name = "val"
    /\ ~FirstHit(0).ok

FailingParticipants ==
    {i \in DeclaredIdxs : Participates(i) /\ ~FirstHit(i).ok}

\* C7: the call returns either a schema with a field for every column that
\* takes part, or the error of the first column that takes part, in declared
\* order, whose type fails to resolve; no later column is looked up or
\* scanned, and no field is made for the failed column
C7_FailFast ==
    pc = "returned" =>
        IF FailingParticipants = {}
        THEN /\ result.ok
             /\ Len(result.val) = Len(ParticipatingBelow(Len(column_names)))
        ELSE LET f == CHOOSE i \in FailingParticipants :
                         \A j \in FailingParticipants : i <= j
             IN /\ ~result.ok
                /\ result = FirstHit(f)
                /\ \A e \in TraceEvents : e.idx <= f
                /\ ~\E e \in TraceEvents : e.ev = "push" /\ e.idx = f
                /\ Len(fields) = Len(ParticipatingBelow(f))

\* two columns fail with different errors and the first one's is returned
C7_Witness ==
    /\ pc = "returned" /\ ~result.ok
    /\ Len(column_names) = 3
    /\ FailingParticipants = {1, 2}
    /\ FirstHit(1) # FirstHit(2)
    /\ result = FirstHit(1)
    /\ result.err.kind = "UnsupportedColumnTypeCombination"
    /\ Len(fields) = 1

SetOf(names) == {names[n] : n \in 1..Len(names)}

\* the d-th candidate: name, name_1, name_2, ...
Candidate(name, d) == IF d = 0 THEN name ELSE name \o "_" \o ToString(d)

\* the first candidate that is not among taken
FirstFree(name, taken) ==
    LET d == CHOOSE d \in 0..Cardinality(taken) :
                /\ Candidate(name, d) \notin taken
                /\ \A d2 \in 0..d : d2 < d => Candidate(name, d2) \in taken
    IN Candidate(name, d)

\* C9: alias_for_name ends and returns the first of name, name_1, name_2, ...
\* that is not among the names given, name itself when it is not among them;
\* the k-th field's display name is the alias of its column's declared name
\* against the display names of the fields before it; id, id, val give
\* id, id_1, val
C9_AliasIsFirstFree ==
    /\ \A name \in Names :
          /\ alias_for_name(name, column_names)
                = FirstFree(name, SetOf(column_names))
          /\ alias_for_name(name, existing_names)
                = FirstFree(name, SetOf(existing_names))
          /\ name \notin SetOf(existing_names)
                => alias_for_name(name, existing_names) = name
    /\ Len(PushEvents) = Len(fields)
    /\ \A k \in 1..Len(fields) :
          fields[k].name
             = FirstFree(NameAt(PushEvents[k].idx),
                         {fields[j].name : j \in {j \in 1..k : j < k}})
    /\ (/\ pc = "returned" /\ result.ok
        /\ column_names = <<"id", "id", "val">>
        /\ selected_columns.kind = "All")
       => [k \in 1..3 |-> result.val[k].name] = <<"id", "id_1", "val">>

C9_Witness ==
    /\ pc = "returned" /\ result.ok
    /\ column_names = <<"id", "id", "val">>
    /\ selected_columns.kind = "All"
    /\ [k \in 1..3 |-> result.val[k].name] = <<"id", "id_1", "val">>
    /\ alias_for_name("id", column_names) = "id_1"

=============================================================================
